---- MODULE Spec2Model ----
(***************************************************************************)
(* Model of custom-patches (gerrit_scripts/custom_patches.py): commits of  *)
(* an old range that are missing, by Gerrit Change-Id, from a new range.   *)
(*                                                                         *)
(* A commit message is kept as its lines plus a flag telling whether the   *)
(* text ends with a newline; Chars renders it to the character sequence    *)
(* the regular expression CHANGE_ID_PATTERN is searched in.                *)
(***************************************************************************)
EXTENDS Naturals, Sequences, FiniteSets

VARIABLES walkA, walkB, last, prev, message, f

\* commit_ident: the designator, the remote, the branches of the remote, the
\* result.
VARIABLES branch, remote, remote_branches, ident

\* find_missing_changes on a repository: the commit graph, the commits the
\* two designators name, the common ancestor.
VARIABLES repo, refs, common_ancestor

\* main: the options, the call the process is at, its exit, what Gerrit
\* answered, the projects to process and the one being processed, the
\* mirrors of the work directory, the aggregate report, what was done.
VARIABLES args, pc, exit, api, projects, current, mirrors, all_missing, trace

\* output_commits: its arguments, what it printed, the file at the JSON
\* path, and whether it ran.
VARIABLES all_commits, filter_regex_str, long_out, json_out, printed, json_file, reported

\* downstream-branch: --dry-run, the branches of the projects on Gerrit, the
\* call the process is at, the statuses of the listings, the projects
\* selected, the requests sent, the lines printed, the exit.
VARIABLES dry_run, gerrit_branches, branch_pc, listings, selected, requests, stdout,
          branch_exit

\* pkgfind.parse_changelog: the lines of the changelog and the value returned.
VARIABLES changelog, version

baseVars == <<walkA, walkB, last, prev, message, f>>

pkgVars == <<changelog, version>>

branchVars == <<dry_run, gerrit_branches, branch_pc, listings, selected, requests, stdout,
                branch_exit>>

reportVars == <<all_commits, filter_regex_str, long_out, json_out, printed, json_file,
                reported>>

runVars == <<args, pc, exit, api, projects, current, mirrors, all_missing, trace>>

identVars == <<branch, remote, remote_branches, ident>>

graphVars == <<repo, refs, common_ancestor>>

toolVars == <<branchVars, pkgVars>>

vars == <<baseVars, identVars, graphVars, runVars, reportVars, toolVars>>

(* ------------------------------ bounds -------------------------------- *)

\* Commits of the two ranges together.
MaxCommits == 3

\* Lines of a commit message.
MaxLines == 3

(* ----------------------------- constants ------------------------------ *)

\* Hex digits after the "I" of a Change-Id: I[a-f0-9]{40}.
IdLen == 40

\* Python's None, for a search without a match: the empty sequence, which no
\* Change-Id is.
None == <<>>

\* f before any search was made.
Unset == <<"unset">>

\* version before parse_changelog returned.
NotCalled == [returned |-> FALSE, value |-> None]

(* ---------------------------- characters ------------------------------ *)

\* [a-f0-9]
HexLower == {"a", "b", "c", "d", "e", "f",
             "0", "1", "2", "3", "4", "5", "6", "7", "8", "9"}

\* \s of a Python str pattern, as far as ASCII goes.
Whitespace == {" ", "\t", "\n", "\r", "\f"}

\* The literal "Change-Id:" of the pattern.
ChangeIdKey == <<"C", "h", "a", "n", "g", "e", "-", "I", "d", ":">>

Repeat(c, n) == [i \in 1..n |-> c]

(* ------------------------- commit messages ---------------------------- *)

\* The lines commit messages are built from, by name.
LineNames == {"title", "cid_a", "cid_b", "key", "val_a",
              "cid_upper", "cid_long", "cid_indent"}

LineText(name) ==
    CASE name = "title"      -> <<"F", "i", "x">>
      [] name = "cid_a"      -> ChangeIdKey \o <<" ", "I">> \o Repeat("a", IdLen)
      [] name = "cid_b"      -> ChangeIdKey \o <<" ", "I">> \o Repeat("b", IdLen)
      [] name = "key"        -> ChangeIdKey
      [] name = "val_a"      -> <<"I">> \o Repeat("a", IdLen)
      [] name = "cid_upper"  -> ChangeIdKey \o <<" ", "I">> \o Repeat("A", IdLen)
      [] name = "cid_long"   -> ChangeIdKey \o <<" ", "I">> \o Repeat("a", IdLen + 1)
      [] name = "cid_indent" -> <<" ">> \o ChangeIdKey \o <<" ", "I">> \o Repeat("a", IdLen)

\* Sequences over S of length lo..hi.
SeqsOf(S, lo, hi) == UNION {[1..n -> S] : n \in lo..hi}

\* Every message of 1..MaxLines lines, ending with a newline or not.
Messages == [lines : SeqsOf(LineNames, 1, MaxLines), eol : BOOLEAN]

RECURSIVE JoinLines(_)
JoinLines(lines) ==
    IF Len(lines) = 0 THEN <<>>
    ELSE IF Len(lines) = 1 THEN LineText(lines[1])
    ELSE LineText(lines[1]) \o <<"\n">> \o JoinLines(Tail(lines))

\* c.message: the text of the message, character by character.
Chars(m) == JoinLines(m.lines) \o (IF m.eol THEN <<"\n">> ELSE <<>>)

(* ------------------------- CHANGE_ID_PATTERN -------------------------- *)

\* Length of a match of r'\nChange-Id:\s(?P<changeid>I[a-f0-9]{40})\n'.
MatchLen == 1 + Len(ChangeIdKey) + 1 + 1 + IdLen + 1

\* Offset of the group "changeid" in a match (0-based).
GroupOffset == 1 + Len(ChangeIdKey) + 1

\* The pattern matches text at position p.
MatchAt(text, p) ==
    /\ p + MatchLen - 1 <= Len(text)
    /\ text[p] = "\n"
    /\ SubSeq(text, p + 1, p + Len(ChangeIdKey)) = ChangeIdKey
    /\ text[p + Len(ChangeIdKey) + 1] \in Whitespace
    /\ text[p + GroupOffset] = "I"
    /\ \A k \in 1..IdLen : text[p + GroupOffset + k] \in HexLower
    /\ text[p + MatchLen - 1] = "\n"

Min(S) == CHOOSE x \in S : \A y \in S : x <= y

Max(S) == CHOOSE x \in S : \A y \in S : y <= x

\* CHANGE_ID_PATTERN.search(text), then .groups()[0]: the group of the
\* leftmost match, or None.
Search(text) ==
    LET hits == {p \in 1..Len(text) : MatchAt(text, p)}
    IN  IF hits = {} THEN None
        ELSE SubSeq(text, Min(hits) + GroupOffset, Min(hits) + GroupOffset + IdLen)

(* ------------------------------ commits ------------------------------- *)

\* Messages of the commits of the two ranges: without trailer, with one
\* trailer (two different Change-Ids), with two trailers.
MsgPlain == [lines |-> <<"title">>, eol |-> TRUE]

MsgA == [lines |-> <<"title", "cid_a">>, eol |-> TRUE]

MsgB == [lines |-> <<"title", "cid_b">>, eol |-> TRUE]

MsgAB == [lines |-> <<"title", "cid_a", "cid_b">>, eol |-> TRUE]

\* What a commit of a range is, apart from its hash: ordinary commits with
\* each message, a commit without parent, merges.
Shapes ==
    {[message |-> MsgPlain, parents |-> <<90>>],
     [message |-> MsgA, parents |-> <<90>>],
     [message |-> MsgB, parents |-> <<90>>],
     [message |-> MsgAB, parents |-> <<90>>],
     [message |-> MsgA, parents |-> <<>>],
     [message |-> MsgA, parents |-> <<90, 91>>],
     [message |-> MsgB, parents |-> <<90, 91>>]}

\* A walk of n commits, newest first, with the hashes base+1 .. base+n.
Walks(base, n) ==
    {[i \in 1..n |-> [hexsha |-> base + i,
                      message |-> s[i].message,
                      parents |-> s[i].parents]] : s \in [1..n -> Shapes]}

Range(s) == {s[i] : i \in 1..Len(s)}

(* -------------------------- build_commit_dict ------------------------- *)

EmptyDict == [k \in {} |-> None]

\* commit_dict[k] = c
Put(commit_dict, k, c) ==
    [x \in (DOMAIN commit_dict) \cup {k} |-> IF x = k THEN c ELSE commit_dict[x]]

\* The loop body without the test on the parents.
IndexCommitAnyParents(commit_dict, c) ==
    LET found == Search(Chars(c.message))
    IN  IF found # None THEN Put(commit_dict, found, c) ELSE commit_dict

\* The loop body keeping the first commit seen under a Change-Id.
IndexCommitFirstWins(commit_dict, c) ==
    LET found == Search(Chars(c.message))
    IN  IF found # None /\ Len(c.parents) = 1 /\ found \notin DOMAIN commit_dict
        THEN Put(commit_dict, found, c)
        ELSE commit_dict

\* The body of the loop of build_commit_dict, for one commit c.
IndexCommit(commit_dict, c) ==
    LET found == Search(Chars(c.message))
    IN  IF found # None /\ Len(c.parents) = 1
        THEN Put(commit_dict, found, c)
        ELSE commit_dict

RECURSIVE BuildFrom(_, _)
BuildFrom(commits, commit_dict) ==
    IF commits = <<>> THEN commit_dict
    ELSE BuildFrom(Tail(commits), IndexCommit(commit_dict, Head(commits)))

build_commit_dict(commits) == BuildFrom(commits, EmptyDict)

(* ------------------------- find_missing_changes ----------------------- *)

\* A difference taken on the commits instead of on the Change-Ids.
MissingIdsByHash(old_commit_dict, new_commit_dict) ==
    {k \in DOMAIN old_commit_dict :
        \A j \in DOMAIN new_commit_dict :
            new_commit_dict[j].hexsha # old_commit_dict[k].hexsha}

\* A difference that forgets the new range.
MissingIdsIgnoreNew(old_commit_dict, new_commit_dict) == DOMAIN old_commit_dict

\* set(old_commit_dict) - set(new_commit_dict)
MissingIds(old_commit_dict, new_commit_dict) ==
    (DOMAIN old_commit_dict) \ (DOMAIN new_commit_dict)

\* The orders in which iterating over the set S of strings can produce its
\* elements: the order follows the strings' hashes, which are salted anew
\* in every process.
SetIterationOrders(S) ==
    {s \in [1..Cardinality(S) -> S] :
        \A i, j \in 1..Cardinality(S) : i # j => s[i] # s[j]}

\* [old_commit_dict[i] for i in <the set, iterated in order>]
Comprehension(old_commit_dict, order) ==
    [i \in 1..Len(order) |-> old_commit_dict[order[i]]]

\* No reconciliation was run yet.
NoRun == [old |-> "none", old_commit_dict |-> EmptyDict,
          new_commit_dict |-> EmptyDict, missing |-> <<>>]

OldCommits(run) == IF run.old = "A" THEN walkA ELSE walkB

(* ------------------------------ the runs ------------------------------ *)

\* commit_ident is not called.
IdleIdent ==
    /\ branch = <<>>
    /\ remote = <<>>
    /\ remote_branches = {}
    /\ ident = <<>>

\* No repository is looked at.
IdleGraph ==
    /\ repo = <<>>
    /\ refs = <<>>
    /\ common_ancestor = <<>>

\* main does not run.
IdleRun ==
    /\ args = <<>>
    /\ pc = "idle"
    /\ exit = <<>>
    /\ api = <<>>
    /\ projects = <<>>
    /\ current = 0
    /\ mirrors = <<>>
    /\ all_missing = <<>>
    /\ trace = <<>>

\* output_commits is not called.
IdleReport ==
    /\ all_commits = <<>>
    /\ filter_regex_str = <<>>
    /\ long_out = FALSE
    /\ json_out = <<>>
    /\ printed = <<>>
    /\ json_file = <<>>
    /\ reported = FALSE

\* downstream-branch does not run.
IdleBranch ==
    /\ dry_run = FALSE
    /\ gerrit_branches = <<>>
    /\ branch_pc = "idle"
    /\ listings = <<>>
    /\ selected = {}
    /\ requests = <<>>
    /\ stdout = <<>>
    /\ branch_exit = <<>>

\* parse_changelog is not called.
IdlePkg ==
    /\ changelog = <<>>
    /\ version = NotCalled

\* No range is reconciled and no message searched.
IdleBase ==
    /\ walkA = <<>>
    /\ walkB = <<>>
    /\ last = NoRun
    /\ prev = NoRun
    /\ message = MsgPlain
    /\ f = Unset

\* The parts of the state the reconciliation of two given ranges leaves out.
IdleOthers == IdleIdent /\ IdleGraph /\ IdleRun /\ IdleReport /\ IdleBranch /\ IdlePkg

othersVars == <<identVars, graphVars, runVars, reportVars, toolVars>>

Init ==
    /\ \E n \in 0..MaxCommits : \E m \in 0..(MaxCommits - n) :
          /\ walkA \in Walks(0, n)
          /\ walkB \in Walks(100, m)
    /\ last = NoRun
    /\ prev = NoRun
    /\ message = MsgPlain
    /\ f = Unset
    /\ IdleOthers

\* One run of find_missing_changes, in its own process, with the range
\* named by old as the old range and the other one as the new range.
Reconcile(old) ==
    LET old_commits == IF old = "A" THEN walkA ELSE walkB
        new_commits == IF old = "A" THEN walkB ELSE walkA
        old_commit_dict == build_commit_dict(old_commits)
        new_commit_dict == build_commit_dict(new_commits)
    IN  \E order \in SetIterationOrders(MissingIds(old_commit_dict, new_commit_dict)) :
          /\ last' = [old |-> old,
                      old_commit_dict |-> old_commit_dict,
                      new_commit_dict |-> new_commit_dict,
                      missing |-> Comprehension(old_commit_dict, order)]
          /\ prev' = last
          /\ UNCHANGED <<walkA, walkB, message, f, othersVars>>

Next == \E old \in {"A", "B"} : Reconcile(old)

Spec == Init /\ [][Next]_vars

(* ----------------------- one message, searched ------------------------ *)

\* The old range is one ordinary commit with any message; the new range is
\* empty.
InitMessage ==
    /\ message \in Messages
    /\ walkA = <<[hexsha |-> 1, message |-> message, parents |-> <<90>>]>>
    /\ walkB = <<>>
    /\ last = NoRun
    /\ prev = NoRun
    /\ f = Unset
    /\ IdleOthers

\* f = CHANGE_ID_PATTERN.search(c.message), reduced to its group.
SearchMessage ==
    /\ f' = Search(Chars(message))
    /\ UNCHANGED <<walkA, walkB, last, prev, message, othersVars>>

NextMessage == SearchMessage \/ Reconcile("A")

SpecMessage == InitMessage /\ [][NextMessage]_vars

(* ---------------------------- commit_ident ---------------------------- *)

\* len(s) == 40 in is_sha.
ShaLen == 40

\* string.hexdigits
Hexdigits == HexLower \cup {"A", "B", "C", "D", "E", "F"}

\* str.lower() on one character of string.hexdigits.
Lower(c) ==
    CASE c = "A" -> "a" [] c = "B" -> "b" [] c = "C" -> "c"
      [] c = "D" -> "d" [] c = "E" -> "e" [] c = "F" -> "f"
      [] OTHER -> c

\* An is_sha that forgets .lower().
is_sha_any_case(s) == Len(s) = ShaLen /\ \A i \in 1..Len(s) : s[i] \in Hexdigits

\* is_sha(s): len(s) == 40 and all(c in string.hexdigits.lower() for c in s)
is_sha(s) ==
    /\ Len(s) = ShaLen
    /\ \A i \in 1..Len(s) : s[i] \in {Lower(c) : c \in Hexdigits}

\* 'remotes/{remote}/{branch}'.format(remote=remote, branch=branch)
RemoteRef(remote_name, branch_name) ==
    <<"r", "e", "m", "o", "t", "e", "s", "/">> \o remote_name \o <<"/">> \o branch_name

\* commit_ident(branch, remote)
commit_ident(branch_name, remote_name) ==
    IF is_sha(branch_name) THEN branch_name ELSE RemoteRef(remote_name, branch_name)

\* source_remote and target_remote of update_remotes.
SourceRemote == <<"c", "u", "s", "t", "o", "m", "_", "p", "a", "t", "c", "h", "e", "s",
                  "_", "s", "o", "u", "r", "c", "e">>

TargetRemote == <<"c", "u", "s", "t", "o", "m", "_", "p", "a", "t", "c", "h", "e", "s",
                  "_", "t", "a", "r", "g", "e", "t">>

\* Characters a designator is made of: lowercase and uppercase hex digits,
\* and others.
DesignatorChars == {"a", "f", "0", "9", "A", "F", "g", "-"}

\* Branch or commit designators: a branch name, runs of one character of 39,
\* 40 and 41 characters, and 40 characters "a" but one, at the start, in the
\* middle or at the end.
Designators ==
    {<<"m", "a", "s", "t", "e", "r">>}
    \cup {Repeat(c, n) : c \in DesignatorChars, n \in {ShaLen - 1, ShaLen, ShaLen + 1}}
    \cup {[i \in 1..ShaLen |-> IF i = k THEN c ELSE "a"] :
              c \in DesignatorChars, k \in {1, ShaLen \div 2, ShaLen}}

InitIdent ==
    /\ branch \in Designators
    /\ remote \in {SourceRemote, TargetRemote}
    /\ remote_branches \in {{}, {branch}}
    /\ ident = <<>>
    /\ IdleBase
    /\ IdleGraph
    /\ IdleRun
    /\ IdleReport
    /\ IdleBranch
    /\ IdlePkg

\* old_commit_ident = commit_ident(old_branch, source_remote), and the same
\* for the new branch.
CommitIdent ==
    /\ ident' = commit_ident(branch, remote)
    /\ UNCHANGED <<baseVars, graphVars, runVars, reportVars, toolVars>>
    /\ UNCHANGED <<branch, remote, remote_branches>>

NextIdent == CommitIdent

SpecIdent == InitIdent /\ [][NextIdent]_vars

(* ----------------- find_missing_changes on a repository ---------------- *)

\* Commits of the mirror, numbered in commit order: a parent has a smaller
\* number than its children.
MaxNodes == 4

Nodes == 1..MaxNodes

\* Lists of parents of commit c: none, one, or two (a merge).
ParentsOf(c) ==
    {<<>>} \cup {<<p>> : p \in 1..(c - 1)}
           \cup {pq \in (1..(c - 1)) \X (1..(c - 1)) : pq[1] < pq[2]}

\* Commit graphs of the mirror.
RECURSIVE GraphsOf(_)
GraphsOf(n) ==
    IF n = 0 THEN {<<>>}
    ELSE {Append(g, parents) : g \in GraphsOf(n - 1), parents \in ParentsOf(n)}

Graphs == GraphsOf(MaxNodes)

\* The message of commit c: every commit carries a Change-Id, the same one
\* on every other commit.
MessageOf(c) == IF c % 2 = 1 THEN MsgA ELSE MsgB

\* The commit object of c in graph g.
CommitOf(g, c) == [hexsha |-> c, message |-> MessageOf(c), parents |-> g[c]]

\* The commits reachable from c in g, c included.
RECURSIVE Reach(_, _)
Reach(g, c) == {c} \cup UNION {Reach(g, g[c][i]) : i \in 1..Len(g[c])}

\* git merge-base: the common ancestors of a and b that are reachable from
\* no other common ancestor.
MergeBases(g, a, b) ==
    LET common == Reach(g, a) \cap Reach(g, b)
    IN  {c \in common : \A d \in common : c \in Reach(g, d) => d = c}

\* A set of commits as a walk, newest first.
RECURSIVE Newest(_)
Newest(S) == IF S = {} THEN <<>> ELSE <<Max(S)>> \o Newest(S \ {Max(S)})

\* repo.iter_commits(anc..ref), with the ancestor itself walked too.
iter_commits_closed(g, anc, ref) ==
    LET S == (Reach(g, ref) \ Reach(g, anc)) \cup {anc}
        w == Newest(S)
    IN  [i \in 1..Len(w) |-> CommitOf(g, w[i])]

\* repo.iter_commits(anc..ref): the commits reachable from ref and not from
\* anc, newest first.
iter_commits(g, anc, ref) ==
    LET w == Newest(Reach(g, ref) \ Reach(g, anc))
    IN  [i \in 1..Len(w) |-> CommitOf(g, w[i])]

\* common_ancestor before the call, and the outcome of
\* repo.merge_base(old, new)[0] when there is a merge base and when there is
\* none.
NoAncestor == [is |-> "unset", hexsha |-> 0]

Ancestor(c) == [is |-> "commit", hexsha |-> c]

IndexError == [is |-> "IndexError", hexsha |-> 0]

InitGraph ==
    /\ repo \in Graphs
    /\ refs \in [old : Nodes, new : Nodes]
    /\ common_ancestor = NoAncestor
    /\ IdleBase
    /\ IdleIdent
    /\ IdleRun
    /\ IdleReport
    /\ IdleBranch
    /\ IdlePkg

\* find_missing_changes(repo, source_remote, target_remote, old_branch,
\* new_branch), on the commits the two designators name.
FindMissingChanges ==
    /\ common_ancestor = NoAncestor
    /\ LET candidates == MergeBases(repo, refs.old, refs.new)
       IN  IF candidates = {}
           THEN /\ common_ancestor' = IndexError
                /\ UNCHANGED <<walkA, walkB, last, prev>>
           ELSE \E anc \in candidates :
                  LET old_commits == iter_commits(repo, anc, refs.old)
                      new_commits == iter_commits(repo, anc, refs.new)
                      old_commit_dict == build_commit_dict(old_commits)
                      new_commit_dict == build_commit_dict(new_commits)
                  IN  \E order \in SetIterationOrders(
                                      MissingIds(old_commit_dict, new_commit_dict)) :
                        /\ common_ancestor' = Ancestor(anc)
                        /\ walkA' = old_commits
                        /\ walkB' = new_commits
                        /\ last' = [old |-> "A",
                                    old_commit_dict |-> old_commit_dict,
                                    new_commit_dict |-> new_commit_dict,
                                    missing |-> Comprehension(old_commit_dict, order)]
                        /\ prev' = last
    /\ UNCHANGED <<message, f, repo, refs, identVars, runVars, reportVars, toolVars>>

NextGraph == FindMissingChanges

SpecGraph == InitGraph /\ [][NextGraph]_vars

(* --------------------------------- main -------------------------------- *)

\* The largest number of projects Gerrit knows, and of commits a packages
\* file names.
MaxProjects == 2

\* A text as its characters.
Gerrit == <<"h", "t", "t", "p", "s", ":", "/", "/", "g">>

NewGerrit == <<"h", "t", "t", "p", "s", ":", "/", "/", "n">>

User == <<"u", "s", "e", "r">>

Password == <<"s", "e", "c", "r", "e", "t">>

OldBranch == <<"o", "l", "d">>

NewBranch == <<"n", "e", "w">>

Prefix == <<"x", "/">>

\* Project names on Gerrit, in the order Gerrit lists them.
AllProjects ==
    <<  <<"x", "/", "a">>, <<"x", "/", "b", "/", "a">>, <<"y", "/", "a">>,
        <<"x", "/", "c">>, <<"x", "/", "d">> >>

ServerProjects == SubSeq(AllProjects, 1, MaxProjects)

\* Commits a packages file names (Private-Mcp-Code-Sha lines).
AllPackageCommits ==
    <<Repeat("1", ShaLen), Repeat("2", ShaLen), Repeat("3", ShaLen),
      Repeat("4", ShaLen), Repeat("5", ShaLen)>>

PackageCommits == Range(SubSeq(AllPackageCommits, 1, MaxProjects))

\* An option that is not given and has no environment variable is None, and
\* so is a text nobody typed; the two are one value here, since no option is
\* given as the empty text.
Given(option) == option # None

\* The options of an invocation. Every combination of the options that
\* parse_args requires, without credentials and without a target; and every
\* combination of credentials and target options, with the required ones
\* given in each of the three modes.
RequiredCombinations ==
    [gerrit : {None, Gerrit},
     gerrit_username : {None},
     gerrit_password : {None},
     new_gerrit : {None},
     new_gerrit_username : {None},
     new_gerrit_password : {None},
     project : {None, <<"a">>},
     new_project : {None},
     project_prefix : {None, Prefix},
     old_branch : {None, OldBranch},
     new_branch : {None, NewBranch},
     mcp_packages_file : BOOLEAN]

CredentialCombinations ==
    {a \in [gerrit : {Gerrit},
            gerrit_username : {None, User},
            gerrit_password : {None, Password},
            new_gerrit : {None, Gerrit, NewGerrit},
            new_gerrit_username : {None, User},
            new_gerrit_password : {None, Password},
            project : {None, <<"x", "/", "a">>},
            new_project : {None, <<"x", "/", "n">>},
            project_prefix : {None, Prefix},
            old_branch : {OldBranch},
            new_branch : {NewBranch},
            mcp_packages_file : BOOLEAN] :
        \/ Given(a.project) /\ ~Given(a.project_prefix) /\ ~a.mcp_packages_file
        \/ ~Given(a.project) /\ ~Given(a.new_project) /\ Given(a.project_prefix)
               /\ ~a.mcp_packages_file
        \/ ~Given(a.project) /\ ~Given(a.new_project) /\ ~Given(a.project_prefix)
               /\ a.mcp_packages_file}

Invocations == RequiredCombinations \cup CredentialCombinations

\* make_gerrit_repo_url(gerrit_url, username, password): the location, with
\* the credentials in it when both are given; None for no location.
NoUrl == [location |-> None, auth |-> None, path |-> None]

make_gerrit_repo_url(gerrit_url, username, password) ==
    IF ~Given(gerrit_url) THEN NoUrl
    ELSE [location |-> gerrit_url,
          auth |-> IF Given(username) /\ Given(password)
                   THEN username \o <<":">> \o password \o <<"@">>
                   ELSE None,
          path |-> None]

\* project.strip('/')
RECURSIVE StripSlashes(_)
StripSlashes(name) ==
    IF name = <<>> THEN name
    ELSE IF Head(name) = "/" THEN StripSlashes(Tail(name))
    ELSE IF name[Len(name)] = "/" THEN StripSlashes(SubSeq(name, 1, Len(name) - 1))
    ELSE name

\* os.path.join(gerrit_uri, project.strip('/'))
RemoteUri(gerrit_uri, project_name) ==
    [gerrit_uri EXCEPT !.path = StripSlashes(project_name)]

\* remote.set_url('')
ClearedUrl == NoUrl

\* os.path.basename(project)
RECURSIVE Basename(_)
Basename(name) ==
    IF \E i \in 1..Len(name) : name[i] = "/"
    THEN Basename(Tail(name))
    ELSE name

\* s.startswith(prefix)
StartsWith(s, prefix) == Len(s) >= Len(prefix) /\ SubSeq(s, 1, Len(prefix)) = prefix

\* The process is at the call named by pc; after the exit, exit holds the
\* exit code of the process and what ended it.
Running == [code |-> 0, by |-> "running"]

\* An exit whose code, on a return of main, is the number of entries of the
\* report.
ExitedCountingEntries(code, by) ==
    [code |-> IF by = "return" THEN Len(all_missing) ELSE code, by |-> by]

Exited(code, by) == [code |-> code, by |-> by]

\* One step of the run, as seen from outside; for find_missing_changes the
\* remote is target_remote, the one the new branch is looked up on (the old
\* branch is looked up on source_remote).
Event(op, project_name, remote_name) ==
    [op |-> op, project |-> project_name, remote |-> remote_name]

InitRun ==
    /\ args \in Invocations
    /\ pc = "parse_args"
    /\ exit = Running
    /\ api = [listing |-> <<>>, changes |-> <<>>, listed |-> <<>>, branches |-> <<>>]
    /\ projects = <<>>
    /\ current = 0
    /\ mirrors = EmptyDict
    /\ all_missing = <<>>
    /\ trace = <<>>
    /\ IdleBase
    /\ IdleIdent
    /\ IdleGraph
    /\ IdleReport
    /\ IdleBranch
    /\ IdlePkg

\* parser.error(...): usage message, exit code 2.
ParserError ==
    /\ pc' = "exited"
    /\ exit' = Exited(2, "parser.error")

\* sys.exit(1) after LOG.error.
SysExit1 ==
    /\ pc' = "exited"
    /\ exit' = Exited(1, "sys.exit")

\* An exception nobody catches: traceback, exit code 1.
Uncaught(exception) ==
    /\ pc' = "exited"
    /\ exit' = Exited(1, exception)

\* parse_args(), after parser.parse_args(): the validation.
ParseArgs ==
    /\ pc = "parse_args"
    /\ IF ~(Given(args.gerrit) /\ Given(args.new_branch)
              /\ (Given(args.project) \/ Given(args.project_prefix)
                    \/ args.mcp_packages_file))
       THEN ParserError
       ELSE IF Given(args.gerrit_password) # Given(args.gerrit_username)
       THEN ParserError
       ELSE IF Given(args.new_gerrit_password) # Given(args.new_gerrit_username)
       THEN ParserError
       ELSE pc' = "discover" /\ UNCHANGED exit
    /\ UNCHANGED <<args, api, projects, current, mirrors, all_missing, trace>>
    /\ UNCHANGED <<baseVars, identVars, graphVars, reportVars, toolVars>>

\* One entry of projects: (project, new_project, old_branch).
Entry(project_name, new_project, old_branch) ==
    [project |-> project_name, new_project |-> new_project, old_branch |-> old_branch]

\* main() after the discovery: 'if projects:' and what follows it up to the
\* loop, or the return.
AfterDiscovery(found) ==
    /\ projects' = found
    /\ IF found # <<>>
       THEN /\ current' = 1
            /\ pc' = "prepare_repo"
            /\ UNCHANGED exit
       ELSE /\ current' = 0
            /\ pc' = "exited"
            /\ exit' = Exited(0, "return")

\* The sequence s without the entries that do not satisfy keep.
RECURSIVE SelectEntries(_, _)
SelectEntries(s, keep) ==
    IF s = <<>> THEN <<>>
    ELSE (IF Head(s) \in keep THEN <<Head(s)>> ELSE <<>>) \o SelectEntries(Tail(s), keep)

\* What Gerrit answers to projects/?p=prefix&b=old&b=new: the projects under
\* the prefix that have one of the two branches, each with those of the two
\* branches it has. server gives the branches of every project.
ListingOf(server, prefix, old_branch, new_branch) ==
    LET listed == {p \in Range(ServerProjects) :
                       /\ StartsWith(p, prefix)
                       /\ server[p] \cap {old_branch, new_branch} # {}}
    IN  [p \in listed |-> server[p] \cap {old_branch, new_branch}]

\* The filter of find_projects keeping a project that has one of the two
\* branches.
BothBranchesEither(projs, old_branch, new_branch) ==
    {p \in DOMAIN projs : {old_branch, new_branch} \cap projs[p] # {}}

\* [p for p, v in projs.items()
\*  if set((old_branch, new_branch)) <= set(v['branches'])]
BothBranches(projs, old_branch, new_branch) ==
    {p \in DOMAIN projs : {old_branch, new_branch} \subseteq projs[p]}

\* Branches a project may have on Gerrit.
ServerBranches == {OldBranch, NewBranch}

\* main(): find_projects(...) and zip(found, [None]*len(found),
\* [args.old_branch]*len(found)), for a prefix without a project.
FindProjects ==
    /\ pc = "discover"
    /\ ~args.mcp_packages_file
    /\ Given(args.project_prefix)
    /\ ~Given(args.project)
    /\ IF ~Given(args.old_branch)
       THEN \* urllib.parse.quote(None, safe='')
            /\ Uncaught("TypeError")
            /\ UNCHANGED <<api, projects, current>>
       ELSE \E status \in {200, 500} :
              \E server \in [Range(ServerProjects) -> SUBSET ServerBranches] :
                LET projs == ListingOf(server, args.project_prefix,
                                       args.old_branch, args.new_branch)
                    found == SelectEntries(ServerProjects,
                                 BothBranches(projs, args.old_branch, args.new_branch))
                IN  IF status # 200
                    THEN /\ api' = [api EXCEPT !.listing = <<status>>]
                         /\ SysExit1
                         /\ UNCHANGED <<projects, current>>
                    ELSE /\ api' = [api EXCEPT !.listing = <<status, projs>>]
                         /\ IF found = <<>>
                            THEN SysExit1 /\ UNCHANGED <<projects, current>>
                            ELSE AfterDiscovery(
                                    [i \in 1..Len(found) |->
                                        Entry(found[i], None, args.old_branch)])
    /\ UNCHANGED <<args, mirrors, all_missing, trace>>
    /\ UNCHANGED <<baseVars, identVars, graphVars, reportVars, toolVars>>

\* main(): projects = [(args.project_prefix + args.project, None,
\* args.old_branch)], or [(args.project, args.new_project, args.old_branch)].
GivenProject ==
    /\ pc = "discover"
    /\ ~args.mcp_packages_file
    /\ Given(args.project)
    /\ IF Given(args.project_prefix)
       THEN AfterDiscovery(<<Entry(args.project_prefix \o args.project, None,
                                   args.old_branch)>>)
       ELSE AfterDiscovery(<<Entry(args.project, args.new_project, args.old_branch)>>)
    /\ UNCHANGED <<args, api, mirrors, all_missing, trace>>
    /\ UNCHANGED <<baseVars, identVars, graphVars, reportVars, toolVars>>

\* What Gerrit answers to /changes/?q=commit: a status and the projects of
\* the changes found (none, one, or more than two).
ChangeAnswers ==
    {[status |-> 500, changes |-> <<>>], [status |-> 200, changes |-> <<>>]}
    \cup {[status |-> 200, changes |-> <<p>>] : p \in Range(ServerProjects)}
    \cup {[status |-> 200, changes |-> <<p, p, p>>] : p \in {ServerProjects[1]}}

\* What Gerrit answers to /projects/{project}/branches: a status and whether
\* refs/heads/<new_branch> is among the refs.
BranchAnswers ==
    {[status |-> 500, has_new |-> FALSE],
     [status |-> 200, has_new |-> FALSE],
     [status |-> 200, has_new |-> TRUE]}

\* The first loop of find_projects_by_commits goes through: every commit has
\* one change (the case of two changes, of a code and a spec project, is left
\* to the inputs not drawn here).
ChangesFound(order, changes) ==
    \A i \in 1..Len(order) :
        changes[order[i]].status = 200 /\ Len(changes[order[i]].changes) = 1

\* The second loop of find_projects_by_commits without its 'continue': an
\* entry whose branch listing failed is kept.
BranchesListedKeepFailed(listed, branches) ==
    SelectEntries(listed,
        {listed[i] : i \in {j \in 1..Len(listed) :
                                branches[j].status # 200 \/ branches[j].has_new}})

\* The second loop of find_projects_by_commits: the entries whose branch
\* listing is answered with 200 and names the new branch.
BranchesListed(listed, branches) ==
    SelectEntries(listed,
        {listed[i] : i \in {j \in 1..Len(listed) :
                                branches[j].status = 200 /\ branches[j].has_new}})

\* main(): parse_packages_file(...) and find_projects_by_commits(...).
FindProjectsByCommits ==
    /\ pc = "discover"
    /\ args.mcp_packages_file
    /\ \E commits \in SUBSET PackageCommits :
         \E order \in SetIterationOrders(commits) :
           \E changes \in [commits -> ChangeAnswers] :
             IF ~ChangesFound(order, changes)
             THEN /\ api' = [api EXCEPT !.changes = changes]
                  /\ SysExit1
                  /\ UNCHANGED <<projects, current>>
             ELSE LET listed == [i \in 1..Len(order) |->
                                    Entry(changes[order[i]].changes[1], None, order[i])]
                  IN  \E branches \in [1..Len(listed) -> BranchAnswers] :
                        /\ api' = [api EXCEPT !.changes = changes,
                                              !.listed = listed,
                                              !.branches = branches]
                        /\ AfterDiscovery(BranchesListed(listed, branches))
    /\ UNCHANGED <<args, mirrors, all_missing, trace>>
    /\ UNCHANGED <<baseVars, identVars, graphVars, reportVars, toolVars>>

\* A mirror without remotes, and a remote: its URL, and the URL its refs
\* were last fetched from (NoUrl: never fetched).
NoRemotes == [r \in {} |-> NoUrl]

Remote(url, fetched) == [url |-> url, fetched |-> fetched]

\* prepare_repo(os.path.join(args.workdir, os.path.basename(project)))
PrepareRepo ==
    /\ pc = "prepare_repo"
    /\ LET project_name == projects[current].project
           repo_path == Basename(project_name)
       IN  /\ mirrors' = IF repo_path \in DOMAIN mirrors THEN mirrors
                         ELSE Put(mirrors, repo_path, NoRemotes)
           /\ trace' = Append(trace, Event("prepare_repo", project_name, None))
    /\ pc' = "update_source"
    /\ UNCHANGED <<args, api, projects, current, all_missing, exit>>
    /\ UNCHANGED <<baseVars, identVars, graphVars, reportVars, toolVars>>

\* gerrit_uri and new_gerrit_uri of main().
SourceUri ==
    make_gerrit_repo_url(args.gerrit, args.gerrit_username, args.gerrit_password)

TargetUri ==
    make_gerrit_repo_url(args.new_gerrit, args.new_gerrit_username,
                         args.new_gerrit_password)

\* The URL update_remote leaves on the remote: '' after remote.update, the
\* URL it fetched from when remote.update raised.
UrlAfterFetch(remote_uri, fetched) == IF fetched THEN ClearedUrl ELSE remote_uri

\* An update_remote after which the run goes on whether or not the fetch
\* went through.
UpdateRemoteGoingOn(remote_name, gerrit_uri, project_name, fetched, next) ==
    LET repo_path == Basename(projects[current].project)
        remote_uri == RemoteUri(gerrit_uri, project_name)
        remotes == mirrors[repo_path]
    IN  /\ mirrors' = Put(mirrors, repo_path,
                          Put(remotes, remote_name, Remote(ClearedUrl, remote_uri)))
        /\ trace' = Append(trace, Event(IF fetched THEN "fetch" ELSE "fetch failed",
                                        projects[current].project, remote_name))
        /\ pc' = next
        /\ UNCHANGED exit

\* update_remote(repo, remote_name, gerrit_uri, project) on the mirror of the
\* current project; fetched tells whether remote.update(prune=True) went
\* through.
UpdateRemote(remote_name, gerrit_uri, project_name, fetched, next) ==
    LET repo_path == Basename(projects[current].project)
        remote_uri == RemoteUri(gerrit_uri, project_name)
        remotes == mirrors[repo_path]
        before == IF remote_name \in DOMAIN remotes THEN remotes[remote_name].fetched
                  ELSE NoUrl
        after == Remote(UrlAfterFetch(remote_uri, fetched),
                        IF fetched THEN remote_uri ELSE before)
    IN  /\ mirrors' = Put(mirrors, repo_path, Put(remotes, remote_name, after))
        /\ trace' = Append(trace, Event(IF fetched THEN "fetch" ELSE "fetch failed",
                                        projects[current].project, remote_name))
        /\ IF fetched
           THEN pc' = next /\ UNCHANGED exit
           ELSE Uncaught("GitCommandError")

\* A target remote of its own only for a target location other than the
\* source location.
TargetRemoteIfDistinct ==
    IF Given(args.new_gerrit) /\ args.new_gerrit # args.gerrit THEN TargetRemote
    ELSE SourceRemote

\* update_remotes: the remote the new branch is looked up on.
TargetRemoteOf == IF Given(args.new_gerrit) THEN TargetRemote ELSE SourceRemote

\* update_remotes: update_remote(repo, source_remote, gerrit_uri, project)
UpdateSource ==
    /\ pc = "update_source"
    /\ \E fetched \in BOOLEAN :
         UpdateRemote(SourceRemote, SourceUri, projects[current].project, fetched,
                      IF TargetRemoteOf # SourceRemote THEN "update_target"
                      ELSE "find_missing")
    /\ UNCHANGED <<args, api, projects, current, all_missing>>
    /\ UNCHANGED <<baseVars, identVars, graphVars, reportVars, toolVars>>

\* update_remotes: update_remote(repo, target_remote, new_gerrit_uri,
\* new_project), new_project being args.new_project or else the project.
UpdateTarget ==
    /\ pc = "update_target"
    /\ \E fetched \in BOOLEAN :
         UpdateRemote(TargetRemote, TargetUri,
                      IF Given(args.new_project) THEN args.new_project
                      ELSE projects[current].project,
                      fetched, "find_missing")
    /\ UNCHANGED <<args, api, projects, current, all_missing>>
    /\ UNCHANGED <<baseVars, identVars, graphVars, reportVars, toolVars>>

\* What find_missing_changes returns for a project: the hashes of the
\* commits found missing (the reconciliation itself is Reconcile and
\* FindMissingChanges above).
Results == {<<>>, <<1>>, <<2, 1>>}

\* all_missing[key] = result, on a dict kept as its list of items: a new key
\* goes last, a key already there keeps its place.
\* all_missing kept as a list: every assignment adds an item.
SetItemAppend(items, key, result) == Append(items, [key |-> key, missing |-> result])

SetItem(items, key, result) ==
    IF \E i \in 1..Len(items) : items[i].key = key
    THEN [i \in 1..Len(items) |->
             IF items[i].key = key THEN [key |-> key, missing |-> result] ELSE items[i]]
    ELSE Append(items, [key |-> key, missing |-> result])

\* main(): all_missing[new_project or project] = find_missing_changes(repo,
\* source_remote, target_remote, old_branch, args.new_branch), and the end
\* of the loop body.
FindMissing ==
    /\ pc = "find_missing"
    /\ LET entry == projects[current]
           key == IF Given(entry.new_project) THEN entry.new_project ELSE entry.project
       IN  /\ trace' = Append(trace, Event("find_missing_changes", entry.project,
                                            TargetRemoteOf))
           /\ IF ~Given(entry.old_branch)
              THEN \* is_sha(None): len(None)
                   /\ Uncaught("TypeError")
                   /\ UNCHANGED <<all_missing, current>>
              ELSE \/ \* repo.merge_base(...)[0] on no merge base
                      /\ Uncaught("IndexError")
                      /\ UNCHANGED <<all_missing, current>>
                   \/ \E result \in Results :
                        /\ all_missing' = SetItem(all_missing, key, result)
                        /\ IF current < Len(projects)
                           THEN current' = current + 1 /\ pc' = "prepare_repo"
                           ELSE current' = current /\ pc' = "output_commits"
                        /\ UNCHANGED exit
    /\ UNCHANGED <<args, api, projects, mirrors>>
    /\ UNCHANGED <<baseVars, identVars, graphVars, reportVars, toolVars>>

\* main(): output_commits(all_missing, ...) and the return; sys.exit(None).
OutputCommits ==
    /\ pc = "output_commits"
    /\ trace' = Append(trace, Event("output_commits", None, None))
    /\ pc' = "exited"
    /\ exit' = Exited(0, "return")
    /\ UNCHANGED <<args, api, projects, current, mirrors, all_missing>>
    /\ UNCHANGED <<baseVars, identVars, graphVars, reportVars, toolVars>>

NextRun ==
    \/ ParseArgs
    \/ FindProjectsByCommits
    \/ FindProjects
    \/ GivenProject
    \/ PrepareRepo
    \/ UpdateSource
    \/ UpdateTarget
    \/ FindMissing
    \/ OutputCommits

SpecRun == InitRun /\ [][NextRun]_vars

(* ---------------------------- output_commits --------------------------- *)

\* The largest number of commits reported for a project.
MaxReported == 2

\* The alternatives of the negative lookahead of DEFAULT_FILTER_REGEX.
UpdatedFromGlobalRequirements ==
    <<"U", "p", "d", "a", "t", "e", "d", " ", "f", "r", "o", "m", " ", "g",
      "l", "o", "b", "a", "l", " ", "r", "e", "q", "u", "i", "r", "e", "m",
      "e", "n", "t", "s">>

ImportedTranslationsFromZanata ==
    <<"I", "m", "p", "o", "r", "t", "e", "d", " ", "T", "r", "a", "n", "s",
      "l", "a", "t", "i", "o", "n", "s", " ", "f", "r", "o", "m", " ", "Z",
      "a", "n", "a", "t", "a">>

UpdateUpperConstraints ==
    <<"U", "p", "d", "a", "t", "e", " ", "U", "P", "P", "E", "R", "_", "C",
      "O", "N", "S", "T", "R", "A", "I", "N", "T", "S", "_", "F", "I", "L",
      "E", " ", "f", "o", "r", " ", "s", "t", "a", "b", "l", "e">>

UpdateGitreview ==
    <<"U", "p", "d", "a", "t", "e", " ", ".", "g", "i", "t", "r", "e", "v",
      "i", "e", "w", " ", "f", "o", "r", " ", "s", "t", "a", "b", "l", "e">>

ImportZuulJobSettings ==
    <<"i", "m", "p", "o", "r", "t", " ", "z", "u", "u", "l", " ", "j", "o",
      "b", " ", "s", "e", "t", "t", "i", "n", "g", "s", " ", "f", "r", "o",
      "m", " ", "p", "r", "o", "j", "e", "c", "t", "-", "c", "o", "n", "f",
      "i", "g">>

DefaultExcluded ==
    {UpdatedFromGlobalRequirements,
     ImportedTranslationsFromZanata,
     UpdateUpperConstraints,
     UpdateGitreview,
     ImportZuulJobSettings}

\* Filter patterns: DEFAULT_FILTER_REGEX, a negative lookahead at the start
\* of the title, and '.*'.
DEFAULT_FILTER_REGEX == [lookahead_not |-> DefaultExcluded]

MatchAll == [lookahead_not |-> {}]

\* A filter that lets every title through.
MatchEverything(filter_regex, title) == TRUE

\* filter_regex.match(title): the pattern matches at the start of the title,
\* which for these patterns means that no excluded text starts the title.
Match(filter_regex, title) ==
    \A excluded \in filter_regex.lookahead_not : ~StartsWith(title, excluded)

\* Titles of reported commits.
TitleUpdateX ==
    <<"U", "p", "d", "a", "t", "e", " ", "X">>

TitleRequirements ==
    <<"U", "p", "d", "a", "t", "e", "d", " ", "f", "r", "o", "m", " ", "g",
      "l", "o", "b", "a", "l", " ", "r", "e", "q", "u", "i", "r", "e", "m",
      "e", "n", "t", "s">>

TitleTranslations ==
    <<"I", "m", "p", "o", "r", "t", "e", "d", " ", "T", "r", "a", "n", "s",
      "l", "a", "t", "i", "o", "n", "s", " ", "f", "r", "o", "m", " ", "Z",
      "a", "n", "a", "t", "a", " ", "(", "d", "e", ")">>

TitleFix ==
    <<"F", "i", "x">>

Titles == {TitleUpdateX, TitleRequirements, TitleTranslations, TitleFix}
\* The lines of a message after its title.
BodyLines == <<"", "Change-Id: I...">>

\* The commits reported for a project: commit i of project number n has
\* hash 10 * n + i; commit_lines[0] is its title and commit_lines[1:] the
\* rest of its message.
ReportedLists(n) ==
    {[i \in 1..Len(ts) |-> [hexsha |-> 10 * n + i, title |-> ts[i], message |-> BodyLines]] :
         ts \in SeqsOf(Titles, 0, MaxReported)}

\* Aggregate reports: the items of all_commits, for one project or two.
Reports ==
    {<<[key |-> <<"p">>, missing |-> l]>> : l \in ReportedLists(1)}
    \cup {<<[key |-> <<"p">>, missing |-> l], [key |-> <<"q">>, missing |-> m]>> :
              l \in ReportedLists(1), m \in ReportedLists(2)}

\* No file at the JSON path.
NoFile == <<"no file">>

\* print(...) of the header of a project and of a commit; the lines of the
\* message when long_out.
HeaderLine(prj) == [project |-> prj, hexsha |-> 0, text |-> <<"Project: ">> \o prj]

CommitLines(prj, c, long) ==
    <<[project |-> prj, hexsha |-> c.hexsha, text |-> c.title]>>
    \o (IF long
        THEN [i \in 1..Len(c.message) |->
                 [project |-> prj, hexsha |-> c.hexsha, text |-> <<c.message[i]>>]]
             \o <<[project |-> prj, hexsha |-> c.hexsha, text |-> <<"\n">>]>>
        ELSE <<>>)

\* The commits of a list whose title the filter matches.
Matching(commits, filter_regex) ==
    SelectSeq(commits, LAMBDA c : Match(filter_regex, c.title))

\* What the inner loop prints for the commits of a project.
RECURSIVE PrintCommits(_, _, _)
PrintCommits(prj, commits, long) ==
    IF commits = <<>> THEN <<>>
    ELSE CommitLines(prj, Head(commits), long) \o PrintCommits(prj, Tail(commits), long)

\* What the outer loop prints.
RECURSIVE PrintProjects(_, _, _)
PrintProjects(items, filter_regex, long) ==
    IF items = <<>> THEN <<>>
    ELSE <<HeaderLine(Head(items).key)>>
         \o PrintCommits(Head(items).key, Matching(Head(items).missing, filter_regex), long)
         \o PrintProjects(Tail(items), filter_regex, long)

\* commit_dict[prj] for the matching commits of a project.
ByHash(commits) ==
    [h \in {commits[i].hexsha : i \in 1..Len(commits)} |->
        LET c == commits[CHOOSE i \in 1..Len(commits) : commits[i].hexsha = h]
        IN  [title |-> c.title, message |-> c.message]]

\* commit_dict with an entry for every project, also one without a matching
\* commit.
CommitDictEveryProject(items, filter_regex) ==
    [prj \in {items[i].key : i \in 1..Len(items)} |->
        ByHash(Matching(items[CHOOSE i \in 1..Len(items) : items[i].key = prj].missing,
                        filter_regex))]

\* commit_dict after the loops when json_out is given: a defaultdict, so a
\* project gets an entry with its first matching commit.
CommitDict(items, filter_regex) ==
    LET with_match == {i \in 1..Len(items) : Matching(items[i].missing, filter_regex) # <<>>}
    IN  [prj \in {items[i].key : i \in with_match} |->
            ByHash(Matching(items[CHOOSE i \in with_match : items[i].key = prj].missing,
                            filter_regex))]

InitReport ==
    /\ all_commits \in Reports
    /\ filter_regex_str \in {DEFAULT_FILTER_REGEX, MatchAll}
    /\ long_out \in BOOLEAN
    /\ json_out \in {None, <<"o", "u", "t", ".", "j", "s", "o", "n">>}
    /\ printed = <<>>
    /\ json_file = NoFile
    /\ reported = FALSE
    /\ IdleBase
    /\ IdleIdent
    /\ IdleGraph
    /\ IdleRun
    /\ IdleBranch
    /\ IdlePkg

\* output_commits(all_commits, filter_regex_str, long_out, json_out)
OutputReport ==
    /\ ~reported
    /\ reported' = TRUE
    /\ printed' = PrintProjects(all_commits, filter_regex_str, long_out)
    /\ LET commit_dict == IF Given(json_out)
                          THEN CommitDict(all_commits, filter_regex_str)
                          ELSE EmptyDict
       IN  json_file' = IF DOMAIN commit_dict # {} THEN <<commit_dict>> ELSE json_file
    /\ UNCHANGED <<all_commits, filter_regex_str, long_out, json_out>>
    /\ UNCHANGED <<baseVars, identVars, graphVars, runVars, toolVars>>

NextReport == OutputReport

SpecReport == InitReport /\ [][NextReport]_vars

(* --------------------------- downstream-branch ------------------------- *)

UpstreamBranch == <<"u", "p">>

DownstreamBranch == <<"d", "o", "w", "n">>

Patrole == <<"p", "a", "t", "r", "o", "l", "e">>

\* Projects under the prefix on Gerrit, in the order Gerrit lists them.
AllBranchProjects ==
    <<  <<"x", "/", "a">>, <<"x", "/", "p", "a", "t", "r", "o", "l", "e">>,
        <<"x", "/", "b">>, <<"x", "/", "c">>, <<"x", "/", "d">> >>

BranchProjects == SubSeq(AllBranchProjects, 1, MaxProjects + 1)

\* The commit at the tip of a branch of the n-th project.
TipOf(n, branch_name) == 10 * n + (IF branch_name = UpstreamBranch THEN 1 ELSE 2)

\* sub in s
Contains(s, sub) ==
    \E i \in 0..Len(s) : i + Len(sub) <= Len(s) /\ SubSeq(s, i + 1, i + Len(sub)) = sub

\* What Gerrit answers to projects/?p=prefix&b=branch with status 200: the
\* projects (their numbers) that have the branch; props['branches'][branch]
\* of project n is TipOf(n, branch).
ProjectsWith(server, branch_name) ==
    {n \in 1..Len(BranchProjects) : branch_name \in server[n]}

\* A selection that does not look at the downstream listing.
SelectionOfUpstream(u_projs, d_projs) ==
    {n \in u_projs : ~Contains(BranchProjects[n], Patrole)}

\* {p: v for p, v in u_projs.items()
\*  if (p not in d_projs and 'patrole' not in p)}
Selection(u_projs, d_projs) ==
    {n \in u_projs : n \notin d_projs /\ ~Contains(BranchProjects[n], Patrole)}

\* A set of project numbers in the order of the listing.
InListingOrder(S) == SelectSeq([n \in 1..Len(BranchProjects) |-> n], LAMBDA n : n \in S)

\* A loop of create_branches that stops at the first failure.
RECURSIVE RequestsUntilFailure(_, _)
RequestsUntilFailure(todo, status) ==
    IF todo = <<>> THEN <<>>
    ELSE <<[project |-> BranchProjects[Head(todo)],
            branch |-> DownstreamBranch,
            revision |-> TipOf(Head(todo), UpstreamBranch),
            status |-> status[Head(todo)]]>>
         \o (IF status[Head(todo)] # 201 THEN <<>>
             ELSE RequestsUntilFailure(Tail(todo), status))

\* The requests of the loop of create_branches: PUT
\* projects/{project}/branches/{branch} with json={'revision': sha}, and the
\* status Gerrit answers.
RECURSIVE Requests(_, _)
Requests(todo, status) ==
    IF todo = <<>> THEN <<>>
    ELSE <<[project |-> BranchProjects[Head(todo)],
            branch |-> DownstreamBranch,
            revision |-> TipOf(Head(todo), UpstreamBranch),
            status |-> status[Head(todo)]]>>
         \o Requests(Tail(todo), status)

\* print("Dry run! Not creating any branches")
DryRunNotice ==
    <<"D", "r", "y", " ", "r", "u", "n", "!", " ", "N", "o", "t", " ",
    "c", "r", "e", "a", "t", "i", "n", "g", " ", "a", "n", "y", " ",
    "b", "r", "a", "n", "c", "h", "e", "s">>

\* print("Projects found:")
ProjectsFound ==
    <<"P", "r", "o", "j", "e", "c", "t", "s", " ", "f", "o", "u", "n",
    "d", ":">>

\* A dry run that lists no project.
DryRunLinesNone(todo) == <<DryRunNotice, ProjectsFound>>

\* The prints of main() under args.dry_run; for p in projects: print(p)
DryRunLines(todo) ==
    <<DryRunNotice, ProjectsFound>> \o [i \in 1..Len(todo) |-> BranchProjects[todo[i]]]

NotExited == [code |-> 0, by |-> "running"]

InitBranch ==
    /\ dry_run \in BOOLEAN
    /\ gerrit_branches \in [1..Len(BranchProjects) -> SUBSET {UpstreamBranch, DownstreamBranch}]
    /\ branch_pc = "find_projects"
    /\ listings = <<>>
    /\ selected = {}
    /\ requests = <<>>
    /\ stdout = <<>>
    /\ branch_exit = NotExited
    /\ IdleBase
    /\ IdleIdent
    /\ IdleGraph
    /\ IdleRun
    /\ IdleReport
    /\ IdlePkg

\* find_projects(gerrit, project_prefix, upstream_branch, downstream_branch)
BranchFindProjects ==
    /\ branch_pc = "find_projects"
    /\ \E u_status \in {200, 500}, d_status \in {200, 500} :
         LET u_projs == ProjectsWith(gerrit_branches, UpstreamBranch)
             d_projs == ProjectsWith(gerrit_branches, DownstreamBranch)
             found == Selection(u_projs, d_projs)
         IN  IF u_status # 200
             THEN /\ listings' = <<u_status>>
                  /\ branch_pc' = "exited"
                  /\ branch_exit' = [code |-> 1, by |-> "sys.exit"]
                  /\ UNCHANGED selected
             ELSE /\ listings' = <<u_status, d_status>>
                  /\ IF d_status # 200 \/ found = {}
                     THEN /\ branch_pc' = "exited"
                          /\ branch_exit' = [code |-> 1, by |-> "sys.exit"]
                          /\ UNCHANGED selected
                     ELSE /\ selected' = found
                          /\ branch_pc' = IF dry_run THEN "dry_run" ELSE "create_branches"
                          /\ UNCHANGED branch_exit
    /\ UNCHANGED <<dry_run, gerrit_branches, requests, stdout>>
    /\ UNCHANGED <<baseVars, identVars, graphVars, runVars, reportVars, pkgVars>>

\* main() with args.dry_run: the prints, and the return.
DryRun ==
    /\ branch_pc = "dry_run"
    /\ stdout' = DryRunLines(InListingOrder(selected))
    /\ branch_pc' = "exited"
    /\ branch_exit' = [code |-> 0, by |-> "return"]
    /\ UNCHANGED <<dry_run, gerrit_branches, listings, selected, requests>>
    /\ UNCHANGED <<baseVars, identVars, graphVars, runVars, reportVars, pkgVars>>

\* create_branches(gerrit, projects, upstream_branch, downstream_branch), and
\* the return of main().
CreateBranches ==
    /\ branch_pc = "create_branches"
    /\ \E status \in [selected -> {201, 409}] :
         /\ requests' = Requests(InListingOrder(selected), status)
         /\ branch_exit' = IF \E n \in selected : status[n] # 201
                           THEN [code |-> 1, by |-> "sys.exit"]
                           ELSE [code |-> 0, by |-> "return"]
    /\ branch_pc' = "exited"
    /\ UNCHANGED <<dry_run, gerrit_branches, listings, selected, stdout>>
    /\ UNCHANGED <<baseVars, identVars, graphVars, runVars, reportVars, pkgVars>>

NextBranch == BranchFindProjects \/ DryRun \/ CreateBranches

SpecBranch == InitBranch /\ [][NextBranch]_vars

(* ====================== pkgfind.parse_changelog ======================= *)

\* Lines of a changelog.
MaxChangelog == 4

\* change['project'].split('/')[-1] of the change looked for.
PkgProject == <<"p">>

\* change['current_revision'][:7]
ShortSha ==
    <<"a", "b", "c", "1", "2", "3", "4">>

PythonPrefix ==
    <<"p", "y", "t", "h", "o", "n", "-">>

\* The header lines of the entries of a package, with the versions they
\* carry.
HeaderOne ==
    <<"p", " ", "(", "1", ".", "0", "-", "1", ")", " ", "x">>

HeaderTwo ==
    <<"p", " ", "(", "2", ":", "1", ".", "1", "-", "1", ")", " ", "x">>

HeaderPython ==
    <<"p", "y", "t", "h", "o", "n", "-", "p", " ", "(", "3", ")", " ",
    "x">>

\* A line of changes naming the commit, one naming another commit, and the
\* line closing an entry.
CommitLine ==
    <<" ", " ", "*", " ", "a", "b", "c", "1", "2", "3", "4", " ", "f",
    "i", "x">>

OtherCommitLine ==
    <<" ", " ", "*", " ", "d", "e", "f", "5", "6", "7", "8", " ", "f",
    "i", "x">>

TrailerLine ==
    <<" ", "-", "-", " ", "d", "e", "v">>

ChangelogLines ==
    {HeaderOne, HeaderTwo, HeaderPython, CommitLine, OtherCommitLine, TrailerLine}

\* requests.get(url, auth=auth).text.splitlines(), newest entry first.
Changelogs == SeqsOf(ChangelogLines, 0, MaxChangelog)

\* str.split(): the words between runs of blanks.
RECURSIVE SplitWords(_, _)
SplitWords(s, word) ==
    IF s = <<>> THEN (IF word = <<>> THEN <<>> ELSE <<word>>)
    ELSE IF Head(s) = " "
         THEN (IF word = <<>> THEN <<>> ELSE <<word>>) \o SplitWords(Tail(s), <<>>)
         ELSE SplitWords(Tail(s), Append(word, Head(s)))

Split(s) == SplitWords(s, <<>>)

RECURSIVE LStrip(_, _)
LStrip(s, chars) ==
    IF s # <<>> /\ Head(s) \in chars THEN LStrip(Tail(s), chars) ELSE s

RECURSIVE RStrip(_, _)
RStrip(s, chars) ==
    IF s # <<>> /\ s[Len(s)] \in chars THEN RStrip(SubSeq(s, 1, Len(s) - 1), chars) ELSE s

\* str.strip(chars)
Strip(s, chars) == RStrip(LStrip(s, chars), chars)

\* line.startswith(project) or line.startswith('python-'+project)
IsPackageLine(line, project) ==
    StartsWith(line, project) \/ StartsWith(line, PythonPrefix \o project)

\* '* ' + short_sha in line
NamesCommit(line, short_sha) == Contains(line, <<"*", " ">> \o short_sha)

\* A scan that keeps the first line naming the commit.
RECURSIVE ScanKeepFirst(_, _, _, _, _)
ScanKeepFirst(todo, project, short_sha, current_pkg, earliest) ==
    IF todo = <<>> THEN earliest
    ELSE IF IsPackageLine(Head(todo), project)
         THEN ScanKeepFirst(Tail(todo), project, short_sha, Head(todo), earliest)
         ELSE IF NamesCommit(Head(todo), short_sha) /\ earliest = None
              THEN ScanKeepFirst(Tail(todo), project, short_sha, current_pkg, current_pkg)
              ELSE ScanKeepFirst(Tail(todo), project, short_sha, current_pkg, earliest)

\* The loop of parse_changelog over the lines left: what earliest holds after
\* the last line.
RECURSIVE Scan(_, _, _, _, _)
Scan(todo, project, short_sha, current_pkg, earliest) ==
    IF todo = <<>> THEN earliest
    ELSE IF IsPackageLine(Head(todo), project)
         THEN Scan(Tail(todo), project, short_sha, Head(todo), earliest)
         ELSE IF NamesCommit(Head(todo), short_sha)
              THEN Scan(Tail(todo), project, short_sha, current_pkg, current_pkg)
              ELSE Scan(Tail(todo), project, short_sha, current_pkg, earliest)

\* earliest.split()[1] of a line of one word.
SplitIndexError == <<"SplitIndexError">>

\* What parse_changelog(gerrit, project, branch, short_sha, auth) returns on
\* the lines of the changelog.
parse_changelog(text, project, short_sha) ==
    LET earliest == Scan(text, project, short_sha, None, None)
    IN  IF earliest = None THEN None
        ELSE IF Len(Split(earliest)) < 2 THEN SplitIndexError
        ELSE Strip(Split(earliest)[2], {"(", ")"})

InitChangelog ==
    /\ changelog \in Changelogs
    /\ version = NotCalled
    /\ IdleBase
    /\ IdleIdent
    /\ IdleGraph
    /\ IdleRun
    /\ IdleReport
    /\ IdleBranch

\* pkg_version = parse_changelog(gerrit_url, project, branch, short_sha, auth)
ParseChangelog ==
    /\ ~version.returned
    /\ version' = [returned |-> TRUE,
                   value |-> parse_changelog(changelog, PkgProject, ShortSha)]
    /\ UNCHANGED changelog
    /\ UNCHANGED <<baseVars, identVars, graphVars, runVars, reportVars, branchVars>>

NextChangelog == ParseChangelog

SpecChangelog == InitChangelog /\ [][NextChangelog]_vars

(* ======================= properties of the runs ======================= *)

Ran(run) == run.old # "none"

\* The Change-Id under which the indexer files commit c, or None.
ChangeIdOf(c) == Search(Chars(c.message))

Values(commit_dict) == {commit_dict[k] : k \in DOMAIN commit_dict}

\* Where commit c stands in a walk (hashes are unique in a walk).
Pos(walk, c) == CHOOSE p \in 1..Len(walk) : walk[p] = c

\* A line that is "Change-Id: I" followed by exactly 40 lowercase hex
\* digits, and the Change-Id it carries.
WellFormedLine(name) ==
    LET t == LineText(name)
        n == Len(ChangeIdKey)
    IN  /\ Len(t) = n + 2 + IdLen
        /\ SubSeq(t, 1, n) = ChangeIdKey
        /\ t[n + 1] = " "
        /\ t[n + 2] = "I"
        /\ \A k \in 1..IdLen : t[n + 2 + k] \in HexLower

LineId(name) ==
    SubSeq(LineText(name), Len(ChangeIdKey) + 2, Len(ChangeIdKey) + 2 + IdLen)

\* The places of the well-formed Change-Id lines of message m.
WellFormedLines(m) == {i \in 1..Len(m.lines) : WellFormedLine(m.lines[i])}

(* C1: the result of find_missing_changes is exactly the commits indexed   *)
(* from the old range whose Change-Id is no key of the index of the new    *)
(* range, each once: the difference is on Change-Ids, so an old commit     *)
(* whose Change-Id is indexed in the new range (under another hash) is     *)
(* never in the result, and every other indexed old commit is.             *)
C1_MissingIsDifferenceOnChangeIds ==
    Ran(last) =>
        /\ Range(last.missing) =
               {c \in Values(last.old_commit_dict) :
                    ChangeIdOf(c) \notin DOMAIN last.new_commit_dict}
        /\ Len(last.missing) = Cardinality(Range(last.missing))
        /\ \A c \in Range(OldCommits(last)) :
               ChangeIdOf(c) \in DOMAIN last.new_commit_dict
                   => c \notin Range(last.missing)

\* A run where a Change-Id of the old index is also in the new index, on a
\* commit with another hash, and another old commit is missing.
C1_Witness ==
    /\ Ran(last)
    /\ \E k \in DOMAIN last.old_commit_dict :
          /\ k \in DOMAIN last.new_commit_dict
          /\ last.old_commit_dict[k].hexsha # last.new_commit_dict[k].hexsha
    /\ last.missing # <<>>

(* C2: the result list is in the order of the old range's walk: of two     *)
(* commits of the result, the one walked earlier comes first.              *)
C2_OrderFollowsOldWalk ==
    Ran(last) =>
        \A i, j \in 1..Len(last.missing) :
            i < j => Pos(OldCommits(last), last.missing[i])
                         < Pos(OldCommits(last), last.missing[j])

(* C3: two runs on the same ranges, with the same range as the old one,    *)
(* return the same list: the same commits in the same order.               *)
C3_SameResultTwice ==
    (Ran(prev) /\ prev.old = last.old) => prev.missing = last.missing

(* C4: no commit with two or more parents is a value of a mapping built by *)
(* build_commit_dict, with or without a Change-Id trailer, and so none is  *)
(* in a result.                                                            *)
C4_NoMergeCommitIndexed ==
    Ran(last) =>
        /\ \A c \in Values(last.old_commit_dict) : Len(c.parents) < 2
        /\ \A c \in Values(last.new_commit_dict) : Len(c.parents) < 2
        /\ \A c \in Range(last.missing) : Len(c.parents) < 2

\* A run whose old range holds a merge commit with a Change-Id that the
\* new range does not have.
C4_Witness ==
    /\ Ran(last)
    /\ \E c \in Range(OldCommits(last)) :
          /\ Len(c.parents) >= 2
          /\ ChangeIdOf(c) # None
          /\ ChangeIdOf(c) \notin DOMAIN last.new_commit_dict

(* C5: a commit whose message has no well-formed Change-Id trailer line is *)
(* not indexed and is never in the result.                                 *)
C5_NoTrailerNeverMissing ==
    Ran(last) =>
        \A c \in Range(OldCommits(last)) :
            WellFormedLines(c.message) = {}
                => /\ c \notin Values(last.old_commit_dict)
                   /\ c \notin Range(last.missing)

(* C6: build_commit_dict skips a commit only for want of a Change-Id or    *)
(* for having more than one parent: the Change-Id of every other commit,   *)
(* a commit without parent included, is a key of the mapping.              *)
C6_OnlyMergesAndNoIdSkipped ==
    Ran(last) =>
        \A c \in Range(OldCommits(last)) :
            (ChangeIdOf(c) # None /\ Len(c.parents) <= 1)
                => \E k \in DOMAIN last.old_commit_dict :
                      /\ k = ChangeIdOf(c)
                      /\ ChangeIdOf(last.old_commit_dict[k]) = k
                      /\ Len(last.old_commit_dict[k].parents) <= 1

\* The commits of a walk that are indexed under Change-Id k: they have a
\* Change-Id and exactly one parent.
IndexedUnder(walk, k) ==
    {i \in 1..Len(walk) : ChangeIdOf(walk[i]) = k /\ Len(walk[i].parents) = 1}

(* C7: a mapping holds one commit per Change-Id, the last one of the walk  *)
(* among the commits indexed under that Change-Id.                         *)
C7_LastSeenWins ==
    Ran(last) =>
        \A k \in DOMAIN last.old_commit_dict :
            /\ IndexedUnder(OldCommits(last), k) # {}
            /\ last.old_commit_dict[k] =
                   OldCommits(last)[Max(IndexedUnder(OldCommits(last), k))]

\* A run whose old range indexes two commits under one Change-Id.
C7_Witness ==
    /\ Ran(last)
    /\ \E k \in DOMAIN last.old_commit_dict :
          Cardinality(IndexedUnder(OldCommits(last), k)) >= 2

(* C8: a search in a message with a well-formed Change-Id line, wherever   *)
(* it stands, returns the Change-Id of such a line; a search in a message  *)
(* without one returns None.                                               *)
C8_SearchFindsEveryTrailerLine ==
    f # Unset =>
        IF WellFormedLines(message) # {}
        THEN f \in {LineId(message.lines[i]) : i \in WellFormedLines(message)}
        ELSE f = None

(* C9: a commit whose message has more than one well-formed Change-Id line *)
(* is indexed under the Change-Id of the first of them and no other.       *)
C9_FirstTrailerIndexed ==
    (Ran(last) /\ Cardinality(WellFormedLines(message)) >= 2) =>
        DOMAIN last.old_commit_dict =
            {LineId(message.lines[Min(WellFormedLines(message))])}

\* The Change-Ids of the commits of a result.
ResultIds(run) == {ChangeIdOf(c) : c \in Range(run.missing)}

(* C10: of two runs on the same ranges with old and new exchanged, the     *)
(* Change-Ids of the results are disjoint; and when no Change-Id is        *)
(* indexed in both ranges, each run returns every indexed commit of its    *)
(* old range.                                                              *)
C10_ExchangedRuns ==
    (Ran(prev) /\ prev.old # last.old) =>
        /\ ResultIds(prev) \cap ResultIds(last) = {}
        /\ (DOMAIN last.old_commit_dict) \cap (DOMAIN last.new_commit_dict) = {}
               => /\ Range(last.missing) = Values(last.old_commit_dict)
                  /\ Range(prev.missing) = Values(prev.old_commit_dict)
                  /\ prev.old_commit_dict = last.new_commit_dict

\* Two exchanged runs on ranges that index no Change-Id in common, each
\* with commits to return.
C10_Witness ==
    /\ Ran(prev)
    /\ prev.old # last.old
    /\ (DOMAIN last.old_commit_dict) \cap (DOMAIN last.new_commit_dict) = {}
    /\ prev.missing # <<>>
    /\ last.missing # <<>>

\* The designator is exactly 40 characters, all of them in 0-9 or a-f.
LowerHex40(s) ==
    /\ Len(s) = 40
    /\ \A i \in 1..Len(s) :
          s[i] \in {"0", "1", "2", "3", "4", "5", "6", "7", "8", "9",
                    "a", "b", "c", "d", "e", "f"}

(* C11: commit_ident returns a designator of exactly 40 lowercase hex      *)
(* characters as it is, whether or not the remote has a branch of that     *)
(* name, and returns remotes/<remote>/<branch> for every other designator, *)
(* 40 characters with an uppercase hex digit included.                     *)
C11_CommitIdent ==
    ident # <<>> =>
        IF LowerHex40(branch)
        THEN ident = branch
        ELSE /\ Len(ident) = 8 + Len(remote) + 1 + Len(branch)
             /\ SubSeq(ident, 1, 8) = <<"r", "e", "m", "o", "t", "e", "s", "/">>
             /\ SubSeq(ident, 9, 8 + Len(remote)) = remote
             /\ ident[9 + Len(remote)] = "/"
             /\ SubSeq(ident, 10 + Len(remote), Len(ident)) = branch

\* A 40-character lowercase hex designator resolved while the remote has a
\* branch of that very name.
C11_Witness ==
    /\ ident # <<>>
    /\ LowerHex40(branch)
    /\ branch \in remote_branches
    /\ ident = branch

\* find_missing_changes went through on the repository.
Walked == repo # <<>> /\ common_ancestor.is = "commit"

\* The hashes of the commits of a walk and of a mapping.
Hashes(walk) == {walk[i].hexsha : i \in 1..Len(walk)}

IndexedHashes(commit_dict) == {commit_dict[k].hexsha : k \in DOMAIN commit_dict}

\* The commits reachable from the chosen ancestor, itself included.
BelowAncestor == Reach(repo, common_ancestor.hexsha)

\* The ancestor is a common ancestor of the two tips; the two walks are the
\* commits reachable from the tip and not from the ancestor; the mappings
\* hold commits of their walk only, none of them reachable from the
\* ancestor.
RangesAboveAncestor ==
    /\ common_ancestor.hexsha \in Reach(repo, refs.old) \cap Reach(repo, refs.new)
    /\ Hashes(walkA) = Reach(repo, refs.old) \ BelowAncestor
    /\ Hashes(walkB) = Reach(repo, refs.new) \ BelowAncestor
    /\ IndexedHashes(last.old_commit_dict) \subseteq Hashes(walkA)
    /\ IndexedHashes(last.new_commit_dict) \subseteq Hashes(walkB)
    /\ (IndexedHashes(last.old_commit_dict) \cup IndexedHashes(last.new_commit_dict))
           \cap BelowAncestor = {}

(* C12: find_missing_changes indexes commits of the ranges (ancestor,      *)
(* oldRef] and (ancestor, newRef] only, where ancestor is the merge base   *)
(* taken; the ancestor and everything reachable from it is never indexed;  *)
(* a tip commit is walked unless it is the ancestor itself.                *)
C12_RangesAboveAncestor ==
    Walked =>
        /\ RangesAboveAncestor
        /\ (refs.old # common_ancestor.hexsha => refs.old \in Hashes(walkA))
        /\ (refs.new # common_ancestor.hexsha => refs.new \in Hashes(walkB))

\* (C12 as stated: both tip commits are walked, whatever the ancestor.)
C12_BothTipsWalked ==
    Walked =>
        /\ RangesAboveAncestor
        /\ refs.old \in Hashes(walkA)
        /\ refs.new \in Hashes(walkB)

\* The old tip is the ancestor, so the old range is empty, while the new
\* range holds the new tip and indexes it; the ancestor has a parent.
C12_Witness ==
    /\ Walked
    /\ refs.old = common_ancestor.hexsha
    /\ walkA = <<>>
    /\ refs.new \in IndexedHashes(last.new_commit_dict)
    /\ repo[common_ancestor.hexsha] # <<>>

(* ------------------------- properties of main -------------------------- *)

Ended == pc = "exited"

\* The steps of the run with a given name, in order.
Events(op) == SelectSeq(trace, LAMBDA e : e.op = op)

\* The report was printed.
ReportPrinted == Events("output_commits") # <<>>

\* Every project of the run was taken up, and reconciled.
EveryProjectAttempted == Len(Events("prepare_repo")) = Len(projects)

ReportKeys == {all_missing[i].key : i \in 1..Len(all_missing)}

(* C13: when the two refs of a project have no merge base, the project has *)
(* no entry in the aggregate report, the other projects of the run are     *)
(* still taken up, the report is printed and the exit code is zero.        *)
C13_NoMergeBaseSkipsProject ==
    (Ended /\ exit.by = "IndexError") =>
        /\ projects[current].project \notin ReportKeys
        /\ EveryProjectAttempted
        /\ ReportPrinted
        /\ exit.code = 0

(* C14: when a fetch fails for one project, the run still takes up every   *)
(* other project and prints the report.                                    *)
C14_FetchFailureSkipsProject ==
    (Ended /\ Events("fetch failed") # <<>>) =>
        /\ EveryProjectAttempted
        /\ ReportPrinted

\* The remotes of the mirrors whose URL holds credentials.
CredentialBearing ==
    {<<m, r>> \in {<<m, r>> \in (DOMAIN mirrors) \X {SourceRemote, TargetRemote} :
                       r \in DOMAIN mirrors[m]} :
        mirrors[m][r].url.auth # None}

(* C15: once a fetch attempt of update_remote is over, whether it went     *)
(* through or failed, no remote of a mirror keeps a URL with credentials.  *)
C15_NoCredentialsAtRest == CredentialBearing = {}

\* The projects Gerrit listed (with status 200) and those of them that have
\* both branches.
Listed == api.listing # <<>> /\ api.listing[1] = 200

HaveBoth ==
    {p \in DOMAIN api.listing[2] :
        args.old_branch \in api.listing[2][p] /\ args.new_branch \in api.listing[2][p]}

ProjectNames == {projects[i].project : i \in 1..Len(projects)}

(* C16: in prefix mode the projects find_projects returns are exactly the  *)
(* listed projects under the prefix that have both the old and the new     *)
(* branch; a project with one of the two is never taken up.                *)
C16_BothBranchesExactly ==
    Listed =>
        /\ ProjectNames = HaveBoth
        /\ \A p \in ProjectNames : StartsWith(p, args.project_prefix)
        /\ \A i \in 1..Len(trace) :
               trace[i].op = "prepare_repo" => trace[i].project \in HaveBoth

\* Gerrit lists a project with one branch only and one with both, and the
\* one with both is reconciled.
C16_Witness ==
    /\ Listed
    /\ \E p \in DOMAIN api.listing[2] : p \notin HaveBoth
    /\ \E e \in Range(Events("find_missing_changes")) : e.project \in HaveBoth

\* A call of the discovery got a status other than 200: the project listing,
\* a change query, a branch listing.
ListingFailed == api.listing # <<>> /\ api.listing[1] # 200

ChangeQueryFailed ==
    api.changes # <<>> /\ \E c \in DOMAIN api.changes : api.changes[c].status # 200

BranchListingFailed ==
    api.branches # <<>> /\ \E i \in DOMAIN api.branches : api.branches[i].status # 200

\* The run stopped with a non-zero exit before any mirror was created or
\* fetched and without a report.
AbortedInDiscovery ==
    /\ Ended
    /\ exit.code # 0
    /\ mirrors = EmptyDict
    /\ trace = <<>>

LacksRequired ==
    \/ ~Given(args.gerrit)
    \/ ~(Given(args.project) \/ Given(args.project_prefix) \/ args.mcp_packages_file)
    \/ ~(Given(args.old_branch) \/ args.mcp_packages_file)
    \/ ~Given(args.new_branch)
    \/ Given(args.gerrit_username) # Given(args.gerrit_password)
    \/ Given(args.new_gerrit_username) # Given(args.new_gerrit_password)

(* C18: an invocation that lacks the source location, a project            *)
(* identifier, the old branch or the new branch, or that has a username    *)
(* without its password or a password without its username, is rejected by *)
(* the validation with a non-zero exit, before any discovery, mirror or    *)
(* fetch work.                                                             *)
C18_ValidationRejects ==
    (pc # "idle" /\ LacksRequired) =>
        \/ pc = "parse_args"
        \/ /\ Ended
           /\ exit.by = "parser.error"
           /\ exit.code # 0

(* --------------------- properties of output_commits -------------------- *)

\* The commits of the aggregate report, each with its project.
ReportedCommits ==
    UNION {{<<all_commits[i].key, c>> : c \in Range(all_commits[i].missing)} :
              i \in 1..Len(all_commits)}

\* The commit was printed: a line of the output carries its project, its
\* hash and its title.
Printed(prj, c) ==
    \E k \in 1..Len(printed) :
        printed[k] = [project |-> prj, hexsha |-> c.hexsha, text |-> c.title]

\* The title begins with the given text.
BeginsWith(title, text) ==
    /\ Len(title) >= Len(text)
    /\ \A k \in 1..Len(text) : title[k] = text[k]

(* C19: output_commits prints a commit of the aggregate report if and only *)
(* if its title satisfies the filter pattern: with the default pattern a   *)
(* title beginning with 'Updated from global requirements' or 'Imported    *)
(* Translations from Zanata' is not printed and 'Update X' is; with '.*'   *)
(* every commit is printed.                                                *)
C19_PrintedIffTitleMatches ==
    reported =>
        \A pc_ \in ReportedCommits :
            LET prj == pc_[1]
                c == pc_[2]
            IN  /\ Printed(prj, c) <=> Match(filter_regex_str, c.title)
                /\ filter_regex_str = MatchAll => Printed(prj, c)
                /\ filter_regex_str = DEFAULT_FILTER_REGEX =>
                      /\ (BeginsWith(c.title, UpdatedFromGlobalRequirements)
                            \/ BeginsWith(c.title, ImportedTranslationsFromZanata))
                             => ~Printed(prj, c)
                      /\ c.title = TitleUpdateX => Printed(prj, c)

\* The default pattern on a project reporting 'Update X' and 'Updated from
\* global requirements': the first is printed, the second is not.
C19_Witness ==
    /\ reported
    /\ filter_regex_str = DEFAULT_FILTER_REGEX
    /\ \E pc_ \in ReportedCommits, qc \in ReportedCommits :
          /\ pc_[1] = qc[1]
          /\ pc_[2].title = TitleUpdateX
          /\ qc[2].title = TitleRequirements
          /\ Printed(pc_[1], pc_[2])
          /\ ~Printed(qc[1], qc[2])

\* The commits of project prj that qualify for the report.
Qualifying(prj) ==
    {pc_[2] : pc_ \in {x \in ReportedCommits :
                           x[1] = prj /\ Match(filter_regex_str, x[2].title)}}

(* C20: with a JSON path, output_commits writes a file holding, for every  *)
(* project of the aggregate report, an entry project -> hash -> {title,    *)
(* message lines} for exactly the commits that qualified, also when no     *)
(* commit of any project qualified.                                        *)
C20_JsonHoldsEveryProject ==
    (reported /\ Given(json_out)) =>
        /\ json_file # NoFile
        /\ DOMAIN json_file[1] = {all_commits[i].key : i \in 1..Len(all_commits)}
        /\ \A prj \in DOMAIN json_file[1] :
              /\ DOMAIN json_file[1][prj] = {c.hexsha : c \in Qualifying(prj)}
              /\ \A c \in Qualifying(prj) :
                    json_file[1][prj][c.hexsha] = [title |-> c.title, message |-> c.message]

\* Nothing failed in the run: no option was rejected, no call of the
\* discovery ended the run, no fetch failed and no reconciliation raised.
NothingFailed ==
    /\ exit.by \notin {"parser.error", "sys.exit", "TypeError", "IndexError",
                        "GitCommandError"}
    /\ Events("fetch failed") = <<>>

\* The reconciliations of the run that returned a result.
Reconciled ==
    Len(Events("find_missing_changes"))
        - (IF exit.by \in {"TypeError", "IndexError"} /\ trace # <<>> THEN 1 ELSE 0)

(* C21: a run in which the validation, the discovery, every fetch and      *)
(* every reconciliation succeed ends with exit code zero, whatever the     *)
(* number of missing commits found, none included.                         *)
C21_SuccessExitsZero ==
    (Ended /\ NothingFailed) =>
        /\ exit.code = 0
        /\ Reconciled = Len(projects)
        /\ projects # <<>> => ReportPrinted

\* A run that reconciled its projects and found missing commits for one and
\* none for another, ended with exit code zero.
C21_Witness ==
    /\ Ended
    /\ NothingFailed
    /\ exit.code = 0
    /\ \E i, j \in 1..Len(all_missing) :
          all_missing[i].missing = <<>> /\ all_missing[j].missing # <<>>

\* The name a project is reported under: the name of its target project
\* when it has one of its own, its own name otherwise.
ReportedName(entry) ==
    IF entry.new_project # <<>> THEN entry.new_project ELSE entry.project

\* The names of a list of entries, each at its first place only.
RECURSIVE FirstPlaces(_, _)
FirstPlaces(names, seen) ==
    IF names = <<>> THEN <<>>
    ELSE IF Head(names) \in seen THEN FirstPlaces(Tail(names), seen)
    ELSE <<Head(names)>> \o FirstPlaces(Tail(names), seen \cup {Head(names)})

\* The loop of main is over.
AfterLoop == pc = "output_commits" \/ ReportPrinted

(* C22: after the loop of main the aggregate report has one entry for each *)
(* project that was reconciled, under the name of the project, and its     *)
(* order is the order in which the projects were (first) processed.        *)
C22_ReportFollowsProcessing ==
    AfterLoop =>
        [i \in 1..Len(all_missing) |-> all_missing[i].key]
            = FirstPlaces([i \in 1..Len(projects) |-> ReportedName(projects[i])], {})

\* Two different projects were reconciled and the report holds them in the
\* order they were processed in.
C22_Witness ==
    /\ AfterLoop
    /\ Len(all_missing) = 2
    /\ all_missing[1].key = ReportedName(projects[1])
    /\ all_missing[2].key = ReportedName(projects[2])
    /\ all_missing[1].key # all_missing[2].key

\* Step k of the run is a fetch that went through, of the given remote for
\* the given project.
FetchedAt(k, project_name, remote_name) ==
    /\ k \in 1..Len(trace)
    /\ trace[k] = [op |-> "fetch", project |-> project_name, remote |-> remote_name]

\* Before step k, a reconciliation, one remote was fetched for the project,
\* and both refs are looked up on it.
SingleRemoteAt(k) ==
    /\ trace[k].remote = SourceRemote
    /\ FetchedAt(k - 1, trace[k].project, SourceRemote)
    /\ k >= 3 /\ trace[k - 2].op = "prepare_repo"

\* Before step k, a reconciliation, two remotes of different names were
\* fetched for the project, the source before the target, and the new ref
\* is looked up on the target.
TwoRemotesAt(k) ==
    /\ trace[k].remote = TargetRemote
    /\ TargetRemote # SourceRemote
    /\ FetchedAt(k - 2, trace[k].project, SourceRemote)
    /\ FetchedAt(k - 1, trace[k].project, TargetRemote)

(* C23: when no target location is supplied, update_remotes attaches and   *)
(* fetches a single remote and both refs are resolved against it; when a   *)
(* target location is supplied, be it the source location again, it        *)
(* attaches and fetches two differently named remotes, the source before   *)
(* the target.                                                             *)
C23_RemotesByTargetOption ==
    \A k \in 1..Len(trace) :
        trace[k].op = "find_missing_changes" =>
            IF args.new_gerrit = <<>> THEN SingleRemoteAt(k) ELSE TwoRemotesAt(k)

\* (C23 as stated: a single remote unless the target location is distinct
\* from the source location.)
C23_RemotesByDistinctTarget ==
    \A k \in 1..Len(trace) :
        trace[k].op = "find_missing_changes" =>
            IF args.new_gerrit = <<>> \/ args.new_gerrit = args.gerrit
            THEN SingleRemoteAt(k)
            ELSE TwoRemotesAt(k)

\* The target location supplied is the source location, and two remotes
\* were fetched before the reconciliation.
C23_Witness ==
    /\ args.new_gerrit = args.gerrit
    /\ \E k \in 1..Len(trace) :
          trace[k].op = "find_missing_changes" /\ TwoRemotesAt(k)

\* The location and the project path the new branch of the current project
\* is to be fetched from: the target location, or else the source location;
\* the target project, or else the project.
TargetLocation == IF args.new_gerrit # <<>> THEN args.new_gerrit ELSE args.gerrit

TargetPath ==
    IF args.new_project # <<>> THEN args.new_project ELSE projects[current].project

(* C24: the new branch of a project is resolved on a remote fetched from   *)
(* the target location joined with the target project path, the location   *)
(* defaulting to the source location and the path to the source project    *)
(* path, each on its own: a target project given without a target location *)
(* still selects the repository of the target project.                     *)
C24_TargetDefaultsIndependent ==
    pc = "find_missing" =>
        LET remotes == mirrors[Basename(projects[current].project)]
            fetched == remotes[TargetRemoteOf].fetched
        IN  /\ fetched.location = TargetLocation
            /\ fetched.path = TargetPath

\* The number of reconciliations among the first k steps.
ReconciliationsUpTo(k) ==
    Cardinality({j \in 1..k : trace[j].op = "find_missing_changes"})

\* Step k stands where the order of main puts it.
InOrder(k) ==
    LET e == trace[k]
    IN  CASE e.op = "prepare_repo" ->
               /\ k = 1 \/ trace[k - 1].op = "find_missing_changes"
               /\ e.project = projects[ReconciliationsUpTo(k) + 1].project
          [] e.op \in {"fetch", "fetch failed"} /\ e.remote = SourceRemote ->
               /\ k > 1
               /\ trace[k - 1] = [op |-> "prepare_repo", project |-> e.project,
                                  remote |-> <<>>]
          [] e.op \in {"fetch", "fetch failed"} /\ e.remote # SourceRemote ->
               FetchedAt(k - 1, e.project, SourceRemote)
          [] e.op = "find_missing_changes" ->
               /\ IF e.remote = SourceRemote THEN SingleRemoteAt(k) ELSE TwoRemotesAt(k)
               /\ \A j \in 1..(k - 1) :
                     (trace[j].project = e.project
                        /\ trace[j].op \in {"fetch", "fetch failed"}
                        /\ \A i \in (j + 1)..(k - 1) : trace[i].op # "prepare_repo")
                     => trace[j].op = "fetch"
          [] e.op = "output_commits" ->
               /\ k = Len(trace)
               /\ k > 1 /\ trace[k - 1].op = "find_missing_changes"
               /\ ReconciliationsUpTo(k) = Len(projects)
               /\ \A j \in 1..(k - 1) : trace[j].op # "output_commits"

(* C25: for every project the mirror is opened or created, then the source *)
(* remote and, when there is one, the target remote are fetched, then the  *)
(* refs are resolved and the walks made; no ref of a project is resolved   *)
(* before its fetches went through; the projects are processed one after   *)
(* another, and the report is printed once, after the last project.        *)
C25_StepsInOrder == \A k \in 1..Len(trace) : InOrder(k)

\* Two projects were processed one after the other, each with a source and
\* a target remote, and the report was printed.
C25_Witness ==
    /\ Len(projects) = 2
    /\ Len(trace) = 9
    /\ trace[9].op = "output_commits"
    /\ trace[5].op = "prepare_repo"
    /\ TwoRemotesAt(4)
    /\ TwoRemotesAt(8)

\* The mirror directory of a project: the work directory joined with the
\* last component of the project name (the work directory is the same for
\* all).
MirrorPath(project_name) == Basename(project_name)

(* C26: two different projects of one run never share a mirror directory:  *)
(* the mirror paths of two different project names of the run differ.      *)
C26_MirrorsNotShared ==
    \A i, j \in 1..Len(projects) :
        projects[i].project # projects[j].project =>
            MirrorPath(projects[i].project) # MirrorPath(projects[j].project)

\* downstream-branch has left find_projects.
ListingsDone == listings # <<>>

\* The projects under the prefix that have the upstream branch, lack the
\* downstream branch and are not named after patrole, read off Gerrit.
Wanted ==
    {n \in 1..Len(BranchProjects) :
        /\ UpstreamBranch \in gerrit_branches[n]
        /\ DownstreamBranch \notin gerrit_branches[n]
        /\ \A i \in 1..Len(BranchProjects[n]) :
             i + Len(Patrole) <= Len(BranchProjects[n]) + 1 =>
                SubSeq(BranchProjects[n], i, i + Len(Patrole) - 1) # Patrole}

NamesOf(S) == {BranchProjects[n] : n \in S}

\* The number of the project of a request.
Requested(r) == CHOOSE n \in 1..Len(BranchProjects) : BranchProjects[n] = r.project

(* C27: find_projects selects exactly the projects under the prefix that   *)
(* are listed for the upstream branch, are not listed for the downstream   *)
(* branch and are not named after patrole; a listing answered with another *)
(* status than 200, or an empty selection, ends the process with a         *)
(* non-zero code before anything is selected or requested; no branch is    *)
(* ever requested on a project that already has the downstream branch.     *)
C27_SelectsUpstreamOnly ==
    /\ ListingsDone =>
         IF (\E i \in 1..Len(listings) : listings[i] # 200) \/ Wanted = {}
         THEN /\ branch_pc = "exited"
              /\ branch_exit.code # 0
              /\ selected = {}
              /\ requests = <<>>
              /\ stdout = <<>>
         ELSE selected = Wanted
    /\ \A i \in 1..Len(requests) :
         DownstreamBranch \notin gerrit_branches[Requested(requests[i])]

\* Branches were requested while a project had both branches and the patrole
\* project had the upstream one only.
C27_Witness ==
    /\ requests # <<>>
    /\ \E n \in 1..Len(BranchProjects) :
         gerrit_branches[n] = {UpstreamBranch, DownstreamBranch}
    /\ gerrit_branches[2] = {UpstreamBranch}

(* C28: create_branches sends one request per selected project, for the    *)
(* downstream branch at the commit of the project's upstream branch, goes  *)
(* on after a request that failed, and the process exits non-zero exactly  *)
(* when a request was answered with another status than 201.               *)
C28_EveryProjectRequested ==
    (~dry_run /\ branch_pc = "exited" /\ selected # {}) =>
        /\ Len(requests) = Cardinality(selected)
        /\ \A n \in selected :
             \E i \in 1..Len(requests) :
                /\ requests[i].project = BranchProjects[n]
                /\ requests[i].branch = DownstreamBranch
                /\ requests[i].revision = TipOf(n, UpstreamBranch)
        /\ branch_exit.code # 0 <=> \E i \in 1..Len(requests) : requests[i].status # 201

\* A request failed and the request after it was sent and succeeded.
C28_Witness ==
    /\ Len(requests) >= 2
    /\ requests[1].status # 201
    /\ requests[2].status = 201
    /\ branch_exit.code = 1

(* C29: with --dry-run no branch-creation request is sent; the run prints  *)
(* its two heading lines and then the selected projects, and those are the *)
(* projects a run without --dry-run on the same Gerrit sends requests for. *)
C29_DryRunOnlyLists ==
    /\ dry_run => requests = <<>>
    /\ (dry_run /\ branch_pc = "exited" /\ selected # {}) =>
          /\ Len(stdout) = 2 + Cardinality(Wanted)
          /\ {stdout[i] : i \in 3..Len(stdout)} = NamesOf(Wanted)
          /\ branch_exit.code = 0
    /\ (~dry_run /\ branch_pc = "exited" /\ selected # {}) =>
          {requests[i].project : i \in 1..Len(requests)} = NamesOf(Wanted)
    /\ ~dry_run => stdout = <<>>

\* A dry run listed two projects.
C29_Witness ==
    /\ dry_run
    /\ Len(stdout) = 4
    /\ requests = <<>>

\* The versions the header lines carry.
VersionOf(line) ==
    IF line = HeaderOne THEN <<"1", ".", "0", "-", "1">>
    ELSE IF line = HeaderTwo THEN <<"2", ":", "1", ".", "1", "-", "1">>
    ELSE <<"3">>

\* The places of the lines naming the commit, and of the header lines before
\* place i.
CommitPlaces == {i \in 1..Len(changelog) : changelog[i] = CommitLine}

HeadersBefore(i) ==
    {h \in 1..Len(changelog) :
        h < i /\ changelog[h] \in {HeaderOne, HeaderTwo, HeaderPython}}

(* C30: parse_changelog returns the version of the oldest entry containing *)
(* the commit: the version carried by the header line closest before the   *)
(* last line that contains '* <short sha>'; it returns None when no line   *)
(* contains '* <short sha>', and also when no header line stands before    *)
(* that last line.                                                         *)
C30_OldestEntryVersion ==
    version.returned =>
        IF CommitPlaces = {} \/ HeadersBefore(Max(CommitPlaces)) = {}
        THEN version.value = None
        ELSE version.value = VersionOf(changelog[Max(HeadersBefore(Max(CommitPlaces)))])

\* The commit stands in two entries and the version of the older one, which
\* differs from that of the newer one, was returned.
C30_Witness ==
    /\ version.returned
    /\ Len(changelog) = 4
    /\ changelog[1] = HeaderTwo
    /\ changelog[2] = CommitLine
    /\ changelog[3] = HeaderOne
    /\ changelog[4] = CommitLine
    /\ version.value = <<"1", ".", "0", "-", "1">>

====
